---- MODULE Spec2Model ----
(***************************************************************************)
(* Model of the application-process orchestrator of textualize-mcp:        *)
(* AppManager (src/textualize_mcp/server/mcp_server.py), the launch_app    *)
(* tool of the same file, AppRegistry and BaseTextualApp                   *)
(* (src/textualize_mcp/core/base.py).                                      *)
(*                                                                         *)
(* The orchestration code runs as coroutines on one asyncio event loop:    *)
(* the code between two awaits that really suspend is one atomic step.     *)
(* In-process applications run on worker threads of a ThreadPoolExecutor.  *)
(***************************************************************************)
EXTENDS Integers, Sequences, FiniteSets, Bags, TLC

----------------------------------------------------------------------------
(* Bounds *)

\* number of app ids generate_app_id can hand out in one run
MaxApps == 2
\* number of boundary calls being served at once (an answer not yet picked
\* up by its caller counts)
MaxCalls == 2

\* number of env ids launch_environment and create_custom_environment can
\* hand out in one run
MaxEnvs == 1
\* number of environment calls being served at once
MaxEnvCalls == 2
\* longest command list a caller passes to create_custom_workflow
MaxCmds == 2
\* number of app ids in the runs that fill the worker pool
MaxPoolApps == 5

AppIds  == 1..MaxApps
EnvIds  == 1..MaxEnvs
PoolIds == 1..MaxPoolApps

----------------------------------------------------------------------------
(* Program constants *)

\* ThreadPoolExecutor(max_workers=4)
MAX_WORKERS == 4
\* _log_output: the buffer is cut once it holds more than 1000 entries ...
BUFFER_LIMIT == 1000
\* ... to its last 500 entries
BUFFER_KEEP == 500

\* AppRegistry._apps after discover_and_register_apps() (names only)
RegisteredApps == {"calculator"}
\* names a caller may pass to launch_app
AppNames == RegisteredApps \cup {"no_such_app"}
\* launch_mode values of the launch_app tool
LaunchModes == {"background", "web", "terminal", "collaborative"}

\* scratch file name prefixes: temp_{app_id}.py, temp_web_{app_id}.py
LaunchTerminalFile == "temp_"
LaunchWebFile == "temp_web_"
\* temp_file_patterns of terminate_app
TerminatePatterns == {"temp_", "temp_web_app_"}
\* temp_file_patterns of _cleanup_temp_files
CleanupPatterns == {"temp_", "temp_web_"}

None == 0
\* process.pid of the process spawned for app_id a
PidOf(a) == 100 + a

----------------------------------------------------------------------------
(* State *)

VARIABLES
    running_apps,      \* AppManager.running_apps : app_id -> instance or AppStatus
    app_processes,     \* AppManager.app_processes : app_id -> process (its pid)
    registry_running,  \* keys of AppRegistry._running_apps
    app_futures,       \* keys of AppManager._app_futures
    futures,           \* the Future of run_app_in_thread, by app_id
    instances,         \* the BaseTextualApp objects, by the app_id set on them
    procs,             \* the spawned OS processes, by app_id
    temp_files,        \* files in temp_apps/ : set of <<prefix, app_id>>
    monitors,          \* _monitor_terminal_process tasks, by app_id
    used_ids,          \* app ids that were stored somewhere
    calls,             \* bag of the boundary calls in progress or just answered
    multiplex_environments, \* AppManager.multiplex_environments : env_id -> dict
    env_procs,         \* the spawned multiplex supervisor processes, by env_id
    env_used_ids,      \* env ids that were generated
    env_calls,         \* bag of the environment calls in progress or answered
    server,            \* the server process: "serving" or "exited"
    calculators,       \* reactive attributes of the CalculatorApp objects
    ui_calls           \* bag of the interaction calls just answered

\* the application side of the state
appvars == <<running_apps, app_processes, registry_running, app_futures,
             futures, instances, procs, temp_files, monitors, used_ids, calls>>
\* the environment side of the state, and the server process
envvars == <<multiplex_environments, env_procs, env_used_ids, env_calls,
             server>>

\* the in-process interaction side of the state
uivars == <<calculators, ui_calls>>

vars == <<appvars, envvars, uivars>>

\* dict helpers
Put(f, k, v) == [x \in (DOMAIN f) \cup {k} |-> IF x = k THEN v ELSE f[x]]
Pop(f, k) == [x \in (DOMAIN f) \ {k} |-> f[x]]
EmptyDict == [x \in {} |-> None]

\* a BaseTextualApp stored in running_apps
LiveHandle(n) == [kind |-> "app", name |-> n, pid |-> None,
                  status |-> "", error_message |-> FALSE]
\* an AppStatus stored in running_apps
StatusOnly(n, p, s, e) == [kind |-> "status", name |-> n, pid |-> p,
                           status |-> s, error_message |-> e]

LogOutput_KeepsOldest(buf, msg) ==
    LET b == Append(buf, msg)
    IN IF Len(b) > BUFFER_LIMIT
       THEN SubSeq(b, 1, BUFFER_KEEP)
       ELSE b

\* BaseTextualApp._log_output
LogOutput(buf, msg) ==
    LET b == Append(buf, msg)
    IN IF Len(b) > BUFFER_LIMIT
       THEN SubSeq(b, Len(b) - BUFFER_KEEP + 1, Len(b))
       ELSE b

\* BaseTextualApp.__init__ (is_running is Textual's App.is_running, False
\* until run(); exit_requested is set by Textual's App.exit())
NewInstance(n) == [name |-> n, is_running |-> FALSE, exit_requested |-> FALSE,
                   process_id |-> None, output_buffer |-> <<>>]

\* a text is a sequence of one-character strings
\* CalculatorApp: numbers = var("0"), left = var(Decimal("0")),
\* right = var(Decimal("0")), value = var(""), operator = var("plus")
CalculatorDefaults == [numbers |-> <<"0">>, left |-> 0, right |-> 0,
                       value |-> <<>>, operator |-> "plus"]

\* process.returncode is None
ReturncodeIsNone(a) == procs[a] \in {"alive", "termed", "killed"}

\* CalculatorApp.get_status and its siblings, on the instance i
InstanceStatus(i) == IF i.is_running THEN "running" ELSE "stopped"

\* AppManager.get_app_status: the lifecycle state reported for a, or "none"
get_app_status(a) ==
    IF a \notin DOMAIN running_apps THEN "none"
    ELSE IF running_apps[a].kind = "status" THEN running_apps[a].status
    ELSE InstanceStatus(instances[a])

\* the pid of the AppStatus that get_status builds: the applications pass
\* no pid, so it is the default
InstancePid(i) == None

\* AppManager.get_app_status: the pid reported for a tracked a
get_app_status_pid(a) ==
    IF running_apps[a].kind = "status" THEN running_apps[a].pid
    ELSE InstancePid(instances[a])

\* the app ids of the run
Ids == DOMAIN futures

\* AppManager.generate_app_id: an id that is nowhere in use
generate_app_id ==
    {a \in Ids \ used_ids : \A b \in Ids \ used_ids : a <= b}

\* one call at the boundary: what was asked, where it stands, its locals
\* (cleanup_successful of terminate_app, the os.kill results seen by
\* cleanup_dead_processes) and its answer
Call(op, pc, a, n, m, res) ==
    [op |-> op, pc |-> pc, app_id |-> a, name |-> n, mode |-> m,
     cleanup_successful |-> TRUE, probe |-> <<>>, result |-> res]

Accept(c) == calls (+) SetToBag({c})
Replace(old, new) == (calls (-) SetToBag({old})) (+) SetToBag({new})
CanAccept == BagCardinality(calls) < MaxCalls

\* the objects Python keeps alive: an instance is referenced by running_apps,
\* by AppRegistry, by the closure of a future that can still run, or by a
\* launch_app frame
Collect(insts, ra, reg, fut, cs) ==
    [a \in {x \in DOMAIN insts :
               \/ x \in DOMAIN ra /\ ra[x].kind = "app"
               \/ x \in reg
               \/ fut[x] \in {"pending", "running"}
               \/ \E r \in BagToSet(cs) : /\ r.op = "launch"
                                         /\ r.pc \in {"spawn", "sleep"}
                                         /\ r.app_id = x}
        |-> insts[a]]

Init ==
    /\ running_apps = EmptyDict
    /\ app_processes = EmptyDict
    /\ registry_running = {}
    /\ app_futures = {}
    /\ futures = [a \in AppIds |-> "none"]
    /\ instances = EmptyDict
    /\ procs = [a \in AppIds |-> "none"]
    /\ temp_files = {}
    /\ monitors = [a \in AppIds |-> "none"]
    /\ used_ids = {}
    /\ calls = EmptyBag
    /\ multiplex_environments = EmptyDict
    /\ env_procs = [e \in EnvIds |-> "none"]
    /\ env_used_ids = {}
    /\ env_calls = EmptyBag
    /\ server = "serving"
    /\ calculators = [a \in AppIds |-> CalculatorDefaults]
    /\ ui_calls = EmptyBag

----------------------------------------------------------------------------
(* launch *)

\* launch_app tool, launch_mode == "terminal": runs up to its return
\* (nothing is stored before the spawn await, so the await exposes no state)
LaunchTerminalMode(n, a, spawn_ok) ==
    /\ UNCHANGED <<envvars, uivars>>
    /\ CanAccept
    /\ a \in generate_app_id
    /\ IF spawn_ok
       THEN /\ used_ids' = used_ids \cup {a}
            /\ procs' = [procs EXCEPT ![a] = "alive"]
            /\ running_apps' = Put(running_apps, a,
                                   StatusOnly(n, PidOf(a), "running", FALSE))
            /\ app_processes' = Put(app_processes, a, PidOf(a))
            /\ calls' = Accept(Call("launch", "done", a, n, "terminal",
                                    "success"))
       ELSE /\ UNCHANGED <<used_ids, procs, running_apps, app_processes>>
            /\ calls' = Accept(Call("launch", "done", None, n, "terminal",
                                    "error"))
    /\ UNCHANGED <<registry_running, app_futures, futures, instances,
                   temp_files, monitors>>

\* AppManager.launch_app up to its first suspension, called by the tool with
\* launch_mode in {background, web, collaborative}.
\* fail: the step that raises ("none", "construct", "write", "submit")
LaunchBegin(n, m, a, fail) ==
    /\ UNCHANGED <<envvars, uivars>>
    /\ CanAccept
    /\ m \in {"background", "web", "collaborative"}
    /\ UNCHANGED <<app_processes, procs, monitors>>
    /\ IF n \notin RegisteredApps
       THEN \* raise ValueError("Unknown application")
            /\ calls' = Accept(Call("launch", "done", None, n, m,
                                    "Unknown application"))
            /\ UNCHANGED <<running_apps, registry_running, app_futures,
                           futures, instances, temp_files, used_ids>>
       ELSE /\ a \in generate_app_id
            /\ IF fail # "none"
               THEN \* except: running_apps.pop, remove_running_app, raise
                    /\ fail = "submit" => m = "collaborative"
                    /\ fail = "write" => m # "collaborative"
                    /\ calls' = Accept(Call("launch", "done", None, n, m,
                                            "Failed to launch"))
                    /\ UNCHANGED <<running_apps, registry_running, app_futures,
                                   futures, instances, temp_files, used_ids>>
               ELSE /\ used_ids' = used_ids \cup {a}
                    /\ running_apps' = Put(running_apps, a, LiveHandle(n))
                    /\ registry_running' = registry_running \cup {a}
                    /\ instances' = Put(instances, a, NewInstance(n))
                    /\ IF m = "collaborative"
                       THEN /\ app_futures' = app_futures \cup {a}
                            /\ futures' = [futures EXCEPT ![a] = "pending"]
                            /\ UNCHANGED temp_files
                            /\ calls' = Accept(Call("launch", "sleep", a, n, m,
                                                    "none"))
                       ELSE /\ temp_files' = temp_files \cup
                                  {<<IF m = "web" THEN LaunchWebFile
                                     ELSE LaunchTerminalFile, a>>}
                            /\ UNCHANGED <<app_futures, futures>>
                            /\ calls' = Accept(Call("launch", "spawn", a, n, m,
                                                    "none"))

\* launch_app resumes from create_subprocess_exec in _launch_web_app or
\* _launch_terminal_app
LaunchSpawned(r, spawn_ok) ==
    LET a == r.app_id
    IN
    /\ UNCHANGED <<envvars, uivars>>
    /\ r \in BagToSet(calls)
    /\ r.op = "launch"
    /\ r.pc = "spawn"
    /\ UNCHANGED <<app_futures, futures, temp_files, used_ids>>
    /\ IF spawn_ok
       THEN /\ procs' = [procs EXCEPT ![a] = "alive"]
            /\ app_processes' = Put(app_processes, a, PidOf(a))
            /\ calls' = Replace(r, [r EXCEPT !.pc = "done",
                                             !.result = "success"])
            /\ UNCHANGED <<running_apps, registry_running>>
            /\ IF r.mode = "background"
               THEN /\ instances' = Collect(
                          [instances EXCEPT ![a] =
                              [@ EXCEPT !.process_id = PidOf(a),
                                        !.output_buffer =
                                            LogOutput(@, "Terminal launched")]],
                          running_apps', registry_running', futures', calls')
                    /\ monitors' = [monitors EXCEPT ![a] = "waiting"]
               ELSE /\ instances' = Collect(instances, running_apps',
                                        registry_running', futures', calls')
                    /\ UNCHANGED monitors
       ELSE \* except: running_apps.pop(app_id, None), remove_running_app, raise
            /\ running_apps' = Pop(running_apps, a)
            /\ registry_running' = registry_running \ {a}
            /\ calls' = Replace(r, [r EXCEPT !.pc = "done",
                                             !.result = "Failed to launch"])
            /\ instances' = Collect(instances, running_apps',
                                    registry_running', futures', calls')
            /\ UNCHANGED <<procs, app_processes, monitors>>

\* launch_app resumes from asyncio.sleep(0.1) in _launch_in_process_app
LaunchSlept(r) ==
    LET a == r.app_id
    IN
    /\ UNCHANGED <<envvars, uivars>>
    /\ r \in BagToSet(calls)
    /\ r.op = "launch"
    /\ r.pc = "sleep"
    /\ calls' = Replace(r, [r EXCEPT !.pc = "done", !.result = "success"])
    /\ instances' = Collect(
           [instances EXCEPT ![a].output_buffer =
               LogOutput(@, "In-process app launched successfully")],
           running_apps, registry_running, futures, calls')
    /\ UNCHANGED <<running_apps, app_processes, registry_running, app_futures,
                   futures, procs, temp_files, monitors, used_ids>>

\* the caller picks up its answer
Return(r) ==
    /\ UNCHANGED <<envvars, uivars>>
    /\ r \in BagToSet(calls)
    /\ r.pc = "done"
    /\ calls' = calls (-) SetToBag({r})
    /\ UNCHANGED <<running_apps, app_processes, registry_running, app_futures,
                   futures, instances, procs, temp_files, monitors, used_ids>>

----------------------------------------------------------------------------
(* worker threads, processes, monitor *)

\* number of futures a pool thread is executing
BusyWorkers == Cardinality({a \in Ids : futures[a] = "running"})

\* a finished future stays reachable only through _app_futures
Finished(a) == IF a \in app_futures THEN "done" ELSE "none"

\* run_app_in_thread starts on a pool thread and app.run() enters its loop
WorkerStart(a) ==
    /\ UNCHANGED <<envvars, uivars>>
    /\ futures[a] = "pending"
    /\ BusyWorkers < MAX_WORKERS
    /\ futures' = [futures EXCEPT ![a] = "running"]
    /\ instances' = [instances EXCEPT ![a] =
           [@ EXCEPT !.is_running = TRUE,
                     !.output_buffer = LogOutput(@, "Starting app in-process")]]
    /\ UNCHANGED <<running_apps, app_processes, registry_running, app_futures,
                   procs, temp_files, monitors, used_ids, calls>>

\* run_app_in_thread: app.run() returns (try and finally branches)
WorkerFinish(a) ==
    /\ UNCHANGED <<envvars, uivars>>
    /\ futures[a] = "running"
    /\ futures' = [futures EXCEPT ![a] = Finished(a)]
    /\ instances' = Collect(
           [instances EXCEPT ![a] =
               [@ EXCEPT !.is_running = FALSE,
                         !.output_buffer = LogOutput(@, "finished running")]],
           running_apps, registry_running, futures', calls)
    /\ UNCHANGED <<running_apps, app_processes, registry_running, app_futures,
                   procs, temp_files, monitors, used_ids, calls>>

\* run_app_in_thread: app.run() raises (except and finally branches)
WorkerFail(a) ==
    LET app == [instances[a] EXCEPT !.is_running = FALSE,
                   !.output_buffer = LogOutput(@, "Error running app")]
    IN
    /\ UNCHANGED <<envvars, uivars>>
    /\ futures[a] = "running"
    /\ futures' = [futures EXCEPT ![a] = Finished(a)]
    \* status = app.get_status(); status.error_message = str(e)
    /\ running_apps' = Put(running_apps, a,
           StatusOnly(app.name, None, InstanceStatus(app), TRUE))
    /\ instances' = Collect([instances EXCEPT ![a] = app], running_apps',
                            registry_running, futures', calls)
    /\ UNCHANGED <<app_processes, registry_running, app_futures, procs,
                   temp_files, monitors, used_ids, calls>>

\* a spawned process exits (by itself, or after a signal)
ProcessExit(a) ==
    /\ UNCHANGED <<envvars, uivars>>
    /\ ReturncodeIsNone(a)
    /\ procs' = [procs EXCEPT ![a] = "exited"]
    /\ UNCHANGED <<running_apps, app_processes, registry_running, app_futures,
                   futures, instances, temp_files, monitors, used_ids, calls>>

CleanupTempFiles_TerminatePatterns(files, a, unlink_ok) ==
    IF unlink_ok THEN files \ {<<p, a>> : p \in {"temp_web_app_"}} ELSE files

CleanupTempFiles_AllApps(files, a, unlink_ok) ==
    IF unlink_ok THEN {f \in files : f[1] \notin CleanupPatterns} ELSE files

\* _cleanup_temp_files: unlink raising is logged and swallowed
CleanupTempFiles(files, a, unlink_ok) ==
    IF unlink_ok THEN files \ {<<p, a>> : p \in CleanupPatterns} ELSE files

\* _monitor_terminal_process resumes from process.wait()
MonitorExit(a, unlink_ok) ==
    /\ UNCHANGED <<envvars, uivars>>
    /\ monitors[a] = "waiting"
    /\ ~ReturncodeIsNone(a)
    /\ monitors' = [monitors EXCEPT ![a] = "none"]
    /\ IF a \in DOMAIN running_apps /\ running_apps[a].kind = "app"
       THEN /\ running_apps' = [running_apps EXCEPT ![a] =
                   StatusOnly(running_apps[a].name, None, "stopped", FALSE)]
            /\ instances' = Collect(
                   [instances EXCEPT ![a].output_buffer =
                       LogOutput(@, "Terminal process ended")],
                   running_apps', registry_running, futures, calls)
       ELSE UNCHANGED <<instances, running_apps>>
    /\ app_processes' = Pop(app_processes, a)
    /\ temp_files' = CleanupTempFiles(temp_files, a, unlink_ok)
    /\ UNCHANGED <<registry_running, app_futures, futures, procs, used_ids,
                   calls>>

----------------------------------------------------------------------------
(* terminate *)

\* BaseTextualApp.exit() (Textual's App.exit) on the instance of a
AppExit(insts, a, exit_ok) ==
    IF exit_ok THEN [insts EXCEPT ![a].exit_requested = TRUE] ELSE insts

DelProcess_Skipped(tbl, a) == tbl

\* terminate_app, "finally: del self.app_processes[app_id]"
DelProcess(tbl, a) == Pop(tbl, a)

\* terminate_app from "Clean up temporary files" to its return, in the call r
\* that becomes r2. insts, procs_tbl, futs: the instances, app_processes and
\* futures the caller leaves; ok: cleanup_successful so far
TerminateTail(r, r2, ok, insts, procs_tbl, futs, unlink_ok, exit_ok) ==
    LET a == r2.app_id
        mine == {<<p, a>> : p \in TerminatePatterns} \cap temp_files
        ok2 == ok /\ (mine = {} \/ unlink_ok)
    IN
    /\ app_processes' = procs_tbl
    /\ temp_files' = IF unlink_ok THEN temp_files \ mine ELSE temp_files
    /\ IF a \in DOMAIN running_apps
       THEN /\ running_apps' = Pop(running_apps, a)
            /\ registry_running' = registry_running \ {a}
            /\ calls' = (calls (-) r) (+) SetToBag({
                   [r2 EXCEPT !.pc = "done", !.cleanup_successful = ok2,
                              !.result = IF ok2 THEN "true" ELSE "false"]})
            /\ instances' = Collect(
                   IF running_apps[a].kind = "app"
                   THEN AppExit(insts, a, exit_ok) ELSE insts,
                   running_apps', registry_running', futs, calls')
       ELSE /\ UNCHANGED <<running_apps, registry_running>>
            /\ calls' = (calls (-) r) (+) SetToBag({
                   [r2 EXCEPT !.pc = "done", !.cleanup_successful = ok2,
                              !.result = "false"]})
            /\ instances' = Collect(insts, running_apps, registry_running,
                                    futs, calls')

NotFound_FallsThrough(new) ==
    /\ calls' = Accept([new EXCEPT !.pc = "done", !.result = "false"])
    /\ app_processes' = Pop(app_processes, new.app_id)
    /\ temp_files' = temp_files \ {<<p, new.app_id>> : p \in TerminatePatterns}
    /\ UNCHANGED <<running_apps, registry_running, app_futures, futures,
                   instances, procs>>

\* terminate_app, "if app_id not in self.running_apps: return False"
NotFound(new) ==
    /\ calls' = Accept([new EXCEPT !.pc = "done", !.result = "false"])
    /\ UNCHANGED <<running_apps, app_processes, registry_running, app_futures,
                   futures, instances, procs, temp_files>>

\* terminate_app(a) from its call to its first suspension or its return.
\* exit_ok: app.exit() does not raise; signal_ok: process.terminate() does
\* not raise; unlink_ok: temp_file.unlink() does not raise
TerminateBegin(a, exit_ok, signal_ok, unlink_ok) ==
    LET new == Call("terminate", "idle", a, "", "", "none")
        \* "Terminate in-process app if exists"
        asked == a \in app_futures /\ futures[a] \in {"pending", "running"}
                 /\ running_apps[a].kind = "app"
        insts == IF asked /\ exit_ok
                 THEN [AppExit(instances, a, TRUE) EXCEPT ![a].output_buffer =
                          LogOutput(@, "exit requested")]
                 ELSE instances
        \* future.cancel() only stops a future no thread has picked up;
        \* del self._app_futures[app_id]
        futs == IF a \in app_futures /\ futures[a] # "running"
                THEN [futures EXCEPT ![a] = "none"] ELSE futures
    IN
    /\ UNCHANGED <<envvars, uivars>>
    /\ CanAccept
    /\ UNCHANGED <<monitors, used_ids>>
    /\ IF a \notin DOMAIN running_apps
       THEN NotFound(new)
       ELSE /\ futures' = futs
            /\ app_futures' = app_futures \ {a}
            /\ IF a \in DOMAIN app_processes
               THEN IF ReturncodeIsNone(a)
                    THEN IF signal_ok
                         THEN \* process.terminate(); await wait_for(...)
                              /\ procs' = [procs EXCEPT ![a] =
                                     IF @ = "alive" THEN "termed" ELSE @]
                              /\ calls' = Accept([new EXCEPT
                                                     !.pc = "wait_grace"])
                              /\ instances' = insts
                              /\ UNCHANGED <<running_apps, app_processes,
                                             registry_running, temp_files>>
                         ELSE \* except Exception; finally del app_processes
                              /\ UNCHANGED procs
                              /\ TerminateTail(EmptyBag, new, FALSE, insts,
                                     DelProcess(app_processes, a), futs,
                                     unlink_ok, exit_ok)
                    ELSE /\ UNCHANGED procs
                         /\ TerminateTail(EmptyBag, new, TRUE, insts,
                                DelProcess(app_processes, a), futs, unlink_ok,
                                exit_ok)
               ELSE /\ UNCHANGED procs
                    /\ TerminateTail(EmptyBag, new, TRUE, insts, app_processes,
                                     futs, unlink_ok, exit_ok)

\* wait_for times out and "except TimeoutError" does not catch it: except
\* Exception, finally del, and on to the cleanup with no kill
TerminateTimeout_NotCaught(r) ==
    /\ UNCHANGED <<envvars, uivars>>
    /\ r \in BagToSet(calls)
    /\ r.op = "terminate"
    /\ r.pc = "wait_grace"
    /\ ReturncodeIsNone(r.app_id)
    /\ UNCHANGED <<app_futures, futures, procs, monitors, used_ids>>
    /\ r.app_id \in DOMAIN app_processes
    /\ \E unlink_ok \in BOOLEAN, exit_ok \in BOOLEAN :
          TerminateTail(SetToBag({r}), r, FALSE, instances,
                        DelProcess(app_processes, r.app_id), futures,
                        unlink_ok, exit_ok)

\* terminate_app: wait_for(process.wait(), timeout=5.0) times out:
\* process.kill(); await process.wait()
TerminateTimeout(r) ==
    /\ UNCHANGED <<envvars, uivars>>
    /\ r \in BagToSet(calls)
    /\ r.op = "terminate"
    /\ r.pc = "wait_grace"
    /\ ReturncodeIsNone(r.app_id)
    /\ procs' = [procs EXCEPT ![r.app_id] = "killed"]
    /\ calls' = Replace(r, [r EXCEPT !.pc = "wait_kill"])
    /\ UNCHANGED <<running_apps, app_processes, registry_running, app_futures,
                   futures, instances, temp_files, monitors, used_ids>>

\* terminate_app resumes from process.wait() after the process exited
TerminateResume(r, unlink_ok, exit_ok) ==
    LET a == r.app_id
    IN
    /\ UNCHANGED <<envvars, uivars>>
    /\ r \in BagToSet(calls)
    /\ r.op = "terminate"
    /\ r.pc \in {"wait_grace", "wait_kill"}
    /\ ~ReturncodeIsNone(a)
    /\ UNCHANGED <<app_futures, futures, procs, monitors, used_ids>>
    /\ IF a \in DOMAIN app_processes
       THEN TerminateTail(SetToBag({r}), r, r.cleanup_successful, instances,
                          DelProcess(app_processes, a), futures, unlink_ok,
                          exit_ok)
       ELSE \* finally: del self.app_processes[app_id] raises KeyError
            /\ calls' = Replace(r, [r EXCEPT !.pc = "done",
                                             !.result = "KeyError"])
            /\ UNCHANGED <<running_apps, app_processes, registry_running,
                           instances, temp_files>>

----------------------------------------------------------------------------
(* reapDead *)

\* the entries cleanup_dead_processes probes
Probed == {a \in DOMAIN running_apps :
              running_apps[a].kind = "status" /\ running_apps[a].pid # None}

\* what os.kill(pid, 0) can answer for the pids of the probed entries: a
\* running child exists; the pid of an exited one is free
\* (ProcessLookupError), or reused by a process of the same user ("ok") or
\* of another user (PermissionError)
ProbeResults ==
    {p \in [Probed -> {"ok", "ProcessLookupError", "PermissionError"}] :
        \A a \in Probed : ReturncodeIsNone(a) => p[a] = "ok"}

FoundDead_All(probe) == Probed

\* the probed entries whose os.kill raises OSError (ProcessLookupError and
\* PermissionError are subclasses of it)
FoundDead(probe) == {a \in Probed : probe[a] # "ok"}

\* AppManager.cleanup_dead_processes, called through the tool of that name
CleanupDeadProcesses(probe, unlink_ok) ==
    LET dead == FoundDead(probe)
    IN
    /\ UNCHANGED <<envvars, uivars>>
    /\ CanAccept
    /\ probe \in ProbeResults
    /\ running_apps' = [a \in DOMAIN running_apps |->
           IF a \in dead
           THEN [running_apps[a] EXCEPT !.status = "stopped", !.pid = None]
           ELSE running_apps[a]]
    /\ app_processes' = [a \in (DOMAIN app_processes) \ dead |->
                            app_processes[a]]
    /\ temp_files' = IF unlink_ok
                     THEN {f \in temp_files :
                              ~(f[2] \in dead /\ f[1] \in CleanupPatterns)}
                     ELSE temp_files
    /\ calls' = Accept([Call("reap", "done", None, "", "", "success")
                           EXCEPT !.probe = probe])
    /\ UNCHANGED <<registry_running, app_futures, futures, instances, procs,
                   monitors, used_ids>>

----------------------------------------------------------------------------

Next ==
    \/ \E n \in AppNames, a \in AppIds, ok \in BOOLEAN :
          LaunchTerminalMode(n, a, ok)
    \/ \E n \in AppNames, m \in LaunchModes, a \in AppIds,
          fail \in {"none", "construct", "write", "submit"} :
          LaunchBegin(n, m, a, fail)
    \/ \E r \in BagToSet(calls), ok \in BOOLEAN : LaunchSpawned(r, ok)
    \/ \E r \in BagToSet(calls) : LaunchSlept(r)
    \/ \E a \in AppIds, e \in BOOLEAN, sg \in BOOLEAN, u \in BOOLEAN :
          TerminateBegin(a, e, sg, u)
    \/ \E r \in BagToSet(calls) : TerminateTimeout(r)
    \/ \E r \in BagToSet(calls), u \in BOOLEAN, e \in BOOLEAN :
          TerminateResume(r, u, e)
    \/ \E p \in ProbeResults, u \in BOOLEAN : CleanupDeadProcesses(p, u)
    \/ \E r \in BagToSet(calls) : Return(r)
    \/ \E a \in AppIds : WorkerStart(a)
    \/ \E a \in AppIds : WorkerFinish(a)
    \/ \E a \in AppIds : WorkerFail(a)
    \/ \E a \in AppIds : ProcessExit(a)
    \/ \E a \in AppIds, ok \in BOOLEAN : MonitorExit(a, ok)

Spec == Init /\ [][Next]_vars

\* the event loop runs a coroutine whose await is over (the process it waits
\* for has exited, or the 5 s of wait_for have passed), and a process that
\* was sent SIGKILL exits
Fairness ==
    \A a \in AppIds :
        /\ WF_vars(\E r \in BagToSet(calls) :
                      r.app_id = a /\ TerminateTimeout(r))
        /\ WF_vars(\E r \in BagToSet(calls), u \in BOOLEAN, e \in BOOLEAN :
                      r.app_id = a /\ TerminateResume(r, u, e))
        /\ WF_vars(procs[a] = "killed" /\ ProcessExit(a))

LiveSpec == Spec /\ Fairness

----------------------------------------------------------------------------
(* app ids as uuid4 gives them *)

\* uuid.uuid4().hex[:8]: any value of the id space, whether or not it is in
\* use (generate_app_id looks at no table)
uuid4_hex8 == AppIds

\* a launch_app call has stored its instance over a tracked entry; the
\* objects of the overwritten entry are no longer reachable by their app_id
Overwrote == \E c \in BagToSet(calls) : c.pc = "overwrote"

\* AppManager.launch_app from its call to "self.running_apps[app_id] = app;
\* AppRegistry.add_running_app(app_id, app)", when generate_app_id returns
\* an id that is a key of running_apps
LaunchOverwrite(n, m, a) ==
    /\ CanAccept
    /\ n \in RegisteredApps
    /\ m \in {"background", "web", "collaborative"}
    /\ a \in uuid4_hex8
    /\ a \in DOMAIN running_apps
    /\ running_apps' = Put(running_apps, a, LiveHandle(n))
    /\ registry_running' = registry_running \cup {a}
    /\ instances' = Put(instances, a, NewInstance(n))
    /\ calls' = Accept(Call("launch", "overwrote", a, n, m, "none"))
    /\ UNCHANGED <<app_processes, app_futures, futures, procs, temp_files,
                   monitors, used_ids>>
    /\ UNCHANGED <<envvars, uivars>>

\* launches with the ids uuid4 gives, followed up to the first overwrite
IdNext ==
    \/ /\ ~Overwrote
       /\ \E n \in AppNames, m \in LaunchModes, a \in AppIds,
             fail \in {"none", "construct", "write", "submit"} :
             LaunchBegin(n, m, a, fail)
    \/ /\ ~Overwrote
       /\ \E n \in AppNames, m \in LaunchModes, a \in AppIds :
             LaunchOverwrite(n, m, a)
    \/ /\ ~Overwrote
       /\ \E r \in BagToSet(calls), ok \in BOOLEAN : LaunchSpawned(r, ok)
    \/ /\ ~Overwrote
       /\ \E r \in BagToSet(calls) : LaunchSlept(r)
    \/ /\ ~Overwrote
       /\ \E r \in BagToSet(calls) : Return(r)
    \/ /\ ~Overwrote
       /\ \E a \in AppIds : WorkerStart(a)
    \/ /\ ~Overwrote
       /\ \E a \in AppIds : ProcessExit(a)

IdSpec == Init /\ [][IdNext]_vars

----------------------------------------------------------------------------
(* environments: command strings *)

\* a command string is a sequence of pieces: literal text, or a replacement
\* field "{key}" of str.format
Lit(t) == [kind |-> "lit", text |-> t]
Ph(k) == [kind |-> "ph", text |-> k]

\* AppManager._load_environment_templates (literal text abridged)
environment_templates ==
    [t \in {"textual_dev", "full_stack", "testing_pipeline",
            "development_stack"} |->
        CASE t = "textual_dev" ->
                <<  <<Lit("APP#green=textual serve "), Ph("app_name"),
                      Lit(":"), Ph("app_name"), Lit("App --port "),
                      Ph("port")>>,
                    <<Lit("CONSOLE#blue+1=textual console")>>,
                    <<Lit("DEV+2=textual run --dev "), Ph("app_name"),
                      Lit(":"), Ph("app_name"), Lit("App")>>,
                    <<Lit("BROWSER+3=xdg-open http://localhost:"),
                      Ph("port")>>  >>
          [] t = "full_stack" ->
                <<  <<Lit("DB")>>, <<Lit("REDIS")>>, <<Lit("API")>>,
                    <<Lit("MONITOR")>>, <<Lit("FILE_BROWSER")>>,
                    <<Lit("DASHBOARD")>>  >>
          [] t = "testing_pipeline" ->
                <<  <<Lit("LINT")>>, <<Lit("TYPE")>>, <<Lit("TEST")>>,
                    <<Lit("COVERAGE")>>, <<Lit("CLEANUP")>>  >>
          [] t = "development_stack" ->
                <<  <<Lit("API")>>, <<Lit("FILE_MGR")>>, <<Lit("PROC_MON")>>,
                    <<Lit("GATEWAY")>>  >>]

\* template names a caller may pass
TemplateNames == (DOMAIN environment_templates) \cup {"no_such_template"}

\* the customizations a caller may pass: none, or a JSON object giving some
\* of the keys
CustomizationValues == [d \in {"app_name", "port"} |->
                           IF d = "app_name" THEN "calculator" ELSE "8000"]
Customizations ==
    {[k \in ks |-> CustomizationValues[k]] : ks \in SUBSET {"app_name", "port"}}
CustomizationInputs ==
    {[given |-> FALSE, params |-> EmptyDict]} \cup
    {[given |-> TRUE, params |-> d] : d \in Customizations}

\* launch_development_environment: custom_params = {}, replaced by
\* json.loads(customizations) when customizations is given
custom_params(input) == IF input.given THEN input.params ELSE EmptyDict

\* cmd.format(**customizations) raises KeyError
FormatRaises(cmd, customizations) ==
    \E i \in 1..Len(cmd) :
        cmd[i].kind = "ph" /\ cmd[i].text \notin DOMAIN customizations

\* cmd.format(**customizations)
Format(cmd, customizations) ==
    [i \in 1..Len(cmd) |->
        IF cmd[i].kind = "ph" THEN Lit(customizations[cmd[i].text])
        ELSE cmd[i]]

\* "if customizations:" -- an empty dict is false
Truthy(customizations) == DOMAIN customizations # {}

\* launch_environment, "Apply customizations"
ApplyCustomizations(config, customizations) ==
    IF Truthy(customizations)
    THEN [i \in 1..Len(config) |-> Format(config[i], customizations)]
    ELSE config

\* the command list still holds a replacement field
Unresolved(config) ==
    \E i \in 1..Len(config) : \E j \in 1..Len(config[i]) :
        config[i][j].kind = "ph"

\* create_custom_workflow: f"+{timeout}|end=echo 'Workflow timeout reached'"
DeadlineCommand(timeout) ==
    <<Lit("+"), Lit(ToString(timeout)),
      Lit("|end=echo 'Workflow timeout reached'")>>

\* the commands a caller may put in workflow_config
WorkflowCommands == {<<Lit("A=echo a")>>, <<Lit("B+A=echo b")>>}
\* the lists a caller may pass as workflow_config
WorkflowConfigs ==
    UNION {[1..n -> WorkflowCommands] : n \in 0..MaxCmds}
\* the timeouts a caller may pass
Timeouts == {-1, 0, 10}

WithDeadline_Always(config, timeout) ==
    Append(config, DeadlineCommand(timeout))

\* create_custom_workflow, "Add timeout to the workflow if specified"
WithDeadline(config, timeout) ==
    IF timeout > 0 THEN Append(config, DeadlineCommand(timeout)) ELSE config

\* multiplex_cmd = ["multiplex"] + config
multiplex_cmd(config) == <<  <<Lit("multiplex")>>  >> \o config

----------------------------------------------------------------------------
(* environments: launch, custom workflow, terminate *)

\* env_id = f"env_{uuid.uuid4().hex[:8]}": an id that is nowhere in use
generate_env_id ==
    {e \in EnvIds \ env_used_ids : \A f \in EnvIds \ env_used_ids : e <= f}

\* one environment call at the boundary: where it stands, its locals
\* (env_id, template_name, customizations, config, and multiplex_cmd as
\* given to create_subprocess_exec) and its answer
EnvCall(op, pc, e, t, cust, config, cmd, res) ==
    [op |-> op, pc |-> pc, env_id |-> e, template |-> t,
     customizations |-> cust, config |-> config, submitted |-> cmd,
     result |-> res]

\* the answer of the call r: the locals are gone
EnvAnswer(r, e, res) ==
    EnvCall(r.op, "done", e, r.template, EmptyDict, <<>>, <<>>, res)

EnvAccept(c) == env_calls (+) SetToBag({c})
EnvReplace(old, new) == (env_calls (-) SetToBag({old})) (+) SetToBag({new})
CanAcceptEnv == BagCardinality(env_calls) < MaxEnvCalls

\* the dict stored in multiplex_environments (the process is env_procs[e])
EnvironmentRecord(t, config, cust) ==
    [template |-> t, config |-> config, customizations |-> cust]

\* env["process"].returncode is None
EnvReturncodeIsNone(e) == env_procs[e] \in {"alive", "termed"}

UnknownTemplate_Spawns(new) ==
    /\ env_calls' = EnvAccept(EnvAnswer(new, None, "Unknown template"))
    /\ env_used_ids' = env_used_ids \cup generate_env_id
    /\ env_procs' = [e \in EnvIds |->
                        IF e \in generate_env_id THEN "alive" ELSE env_procs[e]]
    /\ UNCHANGED multiplex_environments

\* launch_environment, "raise ValueError(f'Unknown template: ...')", turned
\* into an error result by launch_development_environment
UnknownTemplate(new) ==
    /\ env_calls' = EnvAccept(EnvAnswer(new, None, "Unknown template"))
    /\ UNCHANGED <<multiplex_environments, env_procs, env_used_ids>>

\* launch_development_environment(t, input) and launch_environment up to
\* create_subprocess_exec
LaunchEnvironmentBegin(t, input, e) ==
    LET cust == custom_params(input)
        new == EnvCall("launch_env", "idle", None, t, cust, <<>>, <<>>,
                       "none")
        config == ApplyCustomizations(environment_templates[t], cust)
    IN
    /\ CanAcceptEnv
    /\ UNCHANGED <<appvars, uivars>>
    /\ UNCHANGED server
    /\ IF t \notin DOMAIN environment_templates
       THEN UnknownTemplate(new)
       ELSE /\ e \in generate_env_id
            /\ UNCHANGED <<multiplex_environments, env_procs>>
            /\ IF /\ Truthy(cust)
                  /\ \E i \in 1..Len(environment_templates[t]) :
                        FormatRaises(environment_templates[t][i], cust)
               THEN \* KeyError of str.format, outside the try
                    /\ env_calls' = EnvAccept(
                           EnvAnswer(new, None, "Missing key"))
                    /\ UNCHANGED env_used_ids
               ELSE /\ env_used_ids' = env_used_ids \cup {e}
                    /\ env_calls' = EnvAccept([new EXCEPT
                          !.pc = "spawn", !.env_id = e, !.config = config,
                          !.submitted = multiplex_cmd(config)])

\* launch_environment resumes from create_subprocess_exec
LaunchEnvironmentSpawned(r, spawn_ok) ==
    /\ r \in BagToSet(env_calls)
    /\ r.op = "launch_env"
    /\ r.pc = "spawn"
    /\ UNCHANGED <<appvars, uivars>>
    /\ UNCHANGED server
    /\ IF spawn_ok
       THEN /\ env_procs' = [env_procs EXCEPT ![r.env_id] = "alive"]
            /\ multiplex_environments' = Put(multiplex_environments, r.env_id,
                   EnvironmentRecord(r.template, r.config, r.customizations))
            /\ env_calls' = EnvReplace(r, EnvAnswer(r, r.env_id, "success"))
            /\ UNCHANGED env_used_ids
       ELSE \* except: the record was never stored; raise
            /\ env_calls' = EnvReplace(r,
                   EnvAnswer(r, None, "Failed to launch environment"))
            /\ env_used_ids' = env_used_ids \ {r.env_id}
            /\ UNCHANGED <<multiplex_environments, env_procs>>

\* create_custom_workflow(cmds, timeout) and create_custom_environment up
\* to create_subprocess_exec
CreateCustomWorkflowBegin(cmds, timeout, e) ==
    /\ CanAcceptEnv
    /\ UNCHANGED <<appvars, uivars>>
    /\ UNCHANGED server
    /\ e \in generate_env_id
    /\ env_used_ids' = env_used_ids \cup {e}
    /\ env_calls' = EnvAccept(EnvCall("custom", "spawn", e, "custom",
           EmptyDict, WithDeadline(cmds, timeout),
           multiplex_cmd(WithDeadline(cmds, timeout)), "none"))
    /\ UNCHANGED <<multiplex_environments, env_procs>>

\* create_custom_environment resumes from create_subprocess_exec
CreateCustomSpawned(r, spawn_ok) ==
    /\ r \in BagToSet(env_calls)
    /\ r.op = "custom"
    /\ r.pc = "spawn"
    /\ UNCHANGED <<appvars, uivars>>
    /\ UNCHANGED server
    /\ IF spawn_ok
       THEN /\ env_procs' = [env_procs EXCEPT ![r.env_id] = "alive"]
            /\ multiplex_environments' = Put(multiplex_environments, r.env_id,
                   EnvironmentRecord("custom", r.config, EmptyDict))
            /\ env_calls' = EnvReplace(r, EnvAnswer(r, r.env_id, "success"))
            /\ UNCHANGED env_used_ids
       ELSE /\ env_calls' = EnvReplace(r,
                   EnvAnswer(r, None, "Failed to create custom environment"))
            /\ env_used_ids' = env_used_ids \ {r.env_id}
            /\ UNCHANGED <<multiplex_environments, env_procs>>

\* terminate_environment tool and AppManager.terminate_environment(e) up to
\* "await env['process'].wait()" or to the return.
\* gone: the transport of an exited supervisor is already closed, so that
\* process.terminate() raises ProcessLookupError (it is still open while a
\* descendant holds the pipes)
TerminateEnvironmentBegin(e, gone) ==
    LET new == EnvCall("terminate_env", "idle", e, "", EmptyDict, <<>>,
                       <<>>, "none")
    IN
    /\ CanAcceptEnv
    /\ UNCHANGED <<appvars, uivars>>
    /\ UNCHANGED <<server, env_used_ids>>
    /\ IF e \notin DOMAIN multiplex_environments
       THEN /\ env_calls' = EnvAccept([new EXCEPT !.pc = "done",
                                                  !.result = "false"])
            /\ UNCHANGED <<multiplex_environments, env_procs>>
       ELSE IF EnvReturncodeIsNone(e)
            THEN \* terminate(); the wait suspends
                 /\ env_procs' = [env_procs EXCEPT ![e] = "termed"]
                 /\ env_calls' = EnvAccept([new EXCEPT !.pc = "wait"])
                 /\ UNCHANGED multiplex_environments
            ELSE IF gone
                 THEN \* nothing catches it, here or in the tool
                      /\ env_calls' = EnvAccept([new EXCEPT !.pc = "done",
                                          !.result = "ProcessLookupError"])
                      /\ UNCHANGED <<multiplex_environments, env_procs>>
                 ELSE \* wait() returns at once
                      /\ multiplex_environments' =
                             Pop(multiplex_environments, e)
                      /\ env_calls' = EnvAccept([new EXCEPT !.pc = "done",
                                                    !.result = "true"])
                      /\ UNCHANGED env_procs

\* terminate_environment resumes from process.wait():
\* del self.multiplex_environments[env_id]; return True
TerminateEnvironmentResume(r) ==
    /\ r \in BagToSet(env_calls)
    /\ r.op = "terminate_env"
    /\ r.pc = "wait"
    /\ ~EnvReturncodeIsNone(r.env_id)
    /\ UNCHANGED <<appvars, uivars>>
    /\ UNCHANGED <<server, env_used_ids, env_procs>>
    /\ IF r.env_id \in DOMAIN multiplex_environments
       THEN /\ multiplex_environments' = Pop(multiplex_environments, r.env_id)
            /\ env_calls' = EnvReplace(r, [r EXCEPT !.pc = "done",
                                                    !.result = "true"])
       ELSE \* del raises KeyError
            /\ env_calls' = EnvReplace(r, [r EXCEPT !.pc = "done",
                                                    !.result = "KeyError"])
            /\ UNCHANGED multiplex_environments

\* a supervisor process exits (by itself, or after SIGTERM)
EnvProcessExit(e) ==
    /\ EnvReturncodeIsNone(e)
    /\ env_procs' = [env_procs EXCEPT ![e] = "exited"]
    /\ UNCHANGED <<appvars, uivars>>
    /\ UNCHANGED <<multiplex_environments, env_used_ids, env_calls, server>>

\* the caller picks up the answer of its environment call
EnvReturn(r) ==
    /\ r \in BagToSet(env_calls)
    /\ r.pc = "done"
    /\ env_calls' = env_calls (-) SetToBag({r})
    /\ UNCHANGED <<appvars, uivars>>
    /\ UNCHANGED <<multiplex_environments, env_procs, env_used_ids, server>>

\* environments launched from templates, and their termination
EnvNext ==
    \/ \E t \in TemplateNames, input \in CustomizationInputs, e \in EnvIds :
          LaunchEnvironmentBegin(t, input, e)
    \/ \E r \in BagToSet(env_calls), ok \in BOOLEAN :
          LaunchEnvironmentSpawned(r, ok)
    \/ \E e \in EnvIds, gone \in BOOLEAN : TerminateEnvironmentBegin(e, gone)
    \/ \E r \in BagToSet(env_calls) : TerminateEnvironmentResume(r)
    \/ \E e \in EnvIds : EnvProcessExit(e)
    \/ \E r \in BagToSet(env_calls) : EnvReturn(r)

EnvSpec == Init /\ [][EnvNext]_vars

\* custom workflows
WorkflowNext ==
    \/ \E cmds \in WorkflowConfigs, timeout \in Timeouts, e \in EnvIds :
          CreateCustomWorkflowBegin(cmds, timeout, e)
    \/ \E r \in BagToSet(env_calls), ok \in BOOLEAN :
          CreateCustomSpawned(r, ok)
    \/ \E e \in EnvIds : EnvProcessExit(e)
    \/ \E r \in BagToSet(env_calls) : EnvReturn(r)

WorkflowSpec == Init /\ [][WorkflowNext]_vars

----------------------------------------------------------------------------
(* shutdown *)

\* signal_handler while mcp.run() is serving: cleanup_processes(), then
\* sys.exit(0). The handler runs in the main thread, inside the running
\* event loop, so that every asyncio.run(...) of cleanup_processes raises
\* RuntimeError before the coroutine starts; the except clauses log it.
\* What acts is the third loop, process.terminate() on the entries of
\* app_processes, and the three clear() calls. (cleanup_processes runs
\* again from main's finally and from atexit, on the cleared tables.)
\* signal_ok: process.terminate() does not raise
SignalHandler(signal_ok) ==
    /\ server = "serving"
    /\ procs' = [a \in AppIds |->
                    IF /\ a \in DOMAIN app_processes
                       /\ procs[a] = "alive"
                       /\ signal_ok
                    THEN "termed" ELSE procs[a]]
    /\ running_apps' = EmptyDict
    /\ app_processes' = EmptyDict
    /\ multiplex_environments' = EmptyDict
    /\ instances' = Collect(instances, running_apps', registry_running,
                            futures, calls)
    /\ server' = "exited"
    /\ UNCHANGED <<registry_running, app_futures, futures, temp_files,
                   monitors, used_ids, calls, env_procs, env_used_ids,
                   env_calls, uivars>>

\* terminal-mode applications and template environments, until the server
\* process gets a termination signal
ShutdownNext ==
    \/ /\ server = "serving"
       /\ \E n \in AppNames, a \in AppIds, ok \in BOOLEAN :
             LaunchTerminalMode(n, a, ok)
    \/ /\ server = "serving"
       /\ \E a \in AppIds : ProcessExit(a)
    \/ /\ server = "serving"
       /\ \E r \in BagToSet(calls) : Return(r)
    \/ /\ server = "serving"
       /\ \E t \in TemplateNames, input \in CustomizationInputs,
             e \in EnvIds : LaunchEnvironmentBegin(t, input, e)
    \/ /\ server = "serving"
       /\ \E r \in BagToSet(env_calls), ok \in BOOLEAN :
             LaunchEnvironmentSpawned(r, ok)
    \/ /\ server = "serving"
       /\ \E e \in EnvIds : EnvProcessExit(e)
    \/ /\ server = "serving"
       /\ \E r \in BagToSet(env_calls) : EnvReturn(r)
    \/ \E ok \in BOOLEAN : SignalHandler(ok)

ShutdownSpec == Init /\ [][ShutdownNext]_vars

----------------------------------------------------------------------------
(* the worker pool *)

\* the state after construction, for runs with MaxPoolApps app ids
PoolInit ==
    /\ running_apps = EmptyDict
    /\ app_processes = EmptyDict
    /\ registry_running = {}
    /\ app_futures = {}
    /\ futures = [a \in PoolIds |-> "none"]
    /\ instances = EmptyDict
    /\ procs = [a \in PoolIds |-> "none"]
    /\ temp_files = {}
    /\ monitors = [a \in PoolIds |-> "none"]
    /\ used_ids = {}
    /\ calls = EmptyBag
    /\ multiplex_environments = EmptyDict
    /\ env_procs = [e \in EnvIds |-> "none"]
    /\ env_used_ids = {}
    /\ env_calls = EmptyBag
    /\ server = "serving"
    /\ calculators = [a \in PoolIds |-> CalculatorDefaults]
    /\ ui_calls = EmptyBag

\* collaborative launches of a registered application and the pool threads
\* that run them (the applications keep running)
PoolNext ==
    \/ \E n \in RegisteredApps, a \in PoolIds :
          LaunchBegin(n, "collaborative", a, "none")
    \/ \E r \in BagToSet(calls) : LaunchSlept(r)
    \/ \E r \in BagToSet(calls) : Return(r)
    \/ \E a \in PoolIds : WorkerStart(a)

PoolSpec == PoolInit /\ [][PoolNext]_vars

----------------------------------------------------------------------------
(* in-process interaction: the calculator's key handling *)

DigitChars == <<"0", "1", "2", "3", "4", "5", "6", "7", "8", "9">>

\* str.isdecimal() of a key name
isdecimal(key) == \E i \in 1..Len(DigitChars) : DigitChars[i] = key

DigitValue(ch) == CHOOSE d \in 0..9 : DigitChars[d + 1] = ch

\* Decimal(text), for a text of digits
RECURSIVE Decimal(_)
Decimal(t) ==
    IF t = <<>> THEN 0
    ELSE 10 * Decimal(SubSeq(t, 1, Len(t) - 1)) + DigitValue(t[Len(t)])

RECURSIVE StrNat(_)
StrNat(n) ==
    IF n < 10 THEN <<DigitChars[n + 1]>>
    ELSE Append(StrNat(n \div 10), DigitChars[(n % 10) + 1])

\* str(d), for an integral Decimal d
Str(d) == IF d < 0 THEN <<"-">> \o StrNat(-d) ELSE StrNat(d)

\* text.lstrip("0")
RECURSIVE lstrip0(_)
lstrip0(t) == IF t # <<>> /\ Head(t) = "0" THEN lstrip0(Tail(t)) ELSE t

\* CalculatorApp.number_pressed, for the button number-{number}
number_pressed(c, number) ==
    [c EXCEPT !.numbers = lstrip0(c.value) \o <<number>>,
              !.value = lstrip0(c.value) \o <<number>>]

\* CalculatorApp._do_math (divide gives non-integral values and is left out
\* with its key)
do_math(c) ==
    LET l == CASE c.operator = "plus" -> c.left + c.right
               [] c.operator = "minus" -> c.left - c.right
               [] c.operator = "multiply" -> c.left * c.right
    IN [c EXCEPT !.left = l, !.numbers = Str(l), !.value = <<>>]

\* CalculatorApp.pressed_op, for the button button_id
pressed_op(c, button_id) ==
    LET d == IF c.value # <<>>
             THEN do_math([c EXCEPT !.right = Decimal(c.value)])
             ELSE c
    IN [d EXCEPT !.operator = button_id]

\* CalculatorApp.pressed_equals
pressed_equals(c) ==
    IF c.value # <<>> THEN do_math([c EXCEPT !.right = Decimal(c.value)])
    ELSE do_math(c)

\* CalculatorApp.pressed_c, then CalculatorApp.pressed_ac
pressed_c_ac(c) ==
    [c EXCEPT !.value = <<>>, !.left = 0, !.right = 0, !.operator = "plus",
              !.numbers = <<"0">>]

\* CalculatorApp.on_key and the Button.Pressed handlers it triggers, on the
\* attributes c, for a Key event with key name key (not "/" or ".")
on_key(c, key) ==
    CASE isdecimal(key) -> number_pressed(c, key)
      [] key = "c" -> pressed_c_ac(c)
      [] key = "+" -> pressed_op(c, "plus")
      [] key = "-" -> pressed_op(c, "minus")
      [] key = "*" -> pressed_op(c, "multiply")
      [] key = "=" -> pressed_equals(c)
      [] ~isdecimal(key) /\ key \notin {"c", "+", "-", "*", "/", ".", "="} -> c

\* longest text and largest value the key handling is followed to
MaxDigits == 1
MaxTotal == 8

\* Textual delivers a Key event to the running calculator a
OnKey(a, key) ==
    LET c == on_key(calculators[a], key)
    IN
    /\ a \in DOMAIN instances
    /\ instances[a].name = "calculator"
    /\ futures[a] = "running"
    /\ Len(c.value) <= MaxDigits
    /\ c.left <= MaxTotal /\ -c.left <= MaxTotal
    /\ calculators' = [calculators EXCEPT ![a] = c]
    /\ UNCHANGED <<appvars, envvars, ui_calls>>

----------------------------------------------------------------------------
(* in-process interaction: send_input_to_app, get_app_state, read_app_output *)

\* number of answers of interaction calls not yet picked up
MaxUiCalls == 1
\* longest output buffer the interaction runs are followed to
MaxLines == 10

\* one interaction call and its answer: lines are the output lines it
\* carries, app_specific what get_app_specific_detailed_state gave
UiCall(op, a, t, d, res) ==
    [op |-> op, app_id |-> a, input_type |-> t, input_data |-> d,
     result |-> res, lines |-> <<>>, lines_requested |-> 0,
     lines_returned |-> 0, total_lines |-> 0, app_specific |-> EmptyDict]

CanAcceptUi == BagCardinality(ui_calls) < MaxUiCalls

\* BaseTextualApp._handle_key_input and its siblings, then _log_interaction
\* (its timestamp left out), on the output buffer buf
receive_input(buf, input_type, input_data) ==
    LET action ==
            CASE input_type = "key" -> "Key pressed: " \o input_data
              [] input_type = "text" -> "Text entered: " \o input_data
              [] input_type = "command" ->
                    "Command executed: " \o input_data
              [] input_type = "action" -> "Action executed: " \o input_data
              [] OTHER -> "unknown"
        handled == IF action = "unknown" THEN buf ELSE LogOutput(buf, action)
    IN LogOutput(handled,
                 input_type \o ": " \o input_data \o " -> " \o action)

\* the guards of the interaction tools: what they answer for app_id a, or
\* "success". in_process: the tool asks for app_id in _app_futures
UiGuard(a, in_process) ==
    IF a \notin DOMAIN running_apps THEN "not found or not running"
    ELSE IF running_apps[a].kind # "app" THEN "not supported"
    ELSE IF in_process /\ a \notin app_futures
    THEN "must be running in-process"
    ELSE "success"

\* send_input_to_app tool
SendInput(a, input_type, input_data) ==
    LET res == UiGuard(a, TRUE)
    IN
    /\ CanAcceptUi
    /\ ui_calls' = ui_calls (+) SetToBag({
           UiCall("send_input", a, input_type, input_data, res)})
    /\ instances' = IF res = "success"
                    THEN [instances EXCEPT ![a].output_buffer =
                             receive_input(@, input_type, input_data)]
                    ELSE instances
    /\ UNCHANGED <<running_apps, app_processes, registry_running, app_futures,
                   futures, procs, temp_files, monitors, used_ids, calls>>
    /\ UNCHANGED <<envvars, calculators>>

\* list[start:] of Python
SliceFrom(buf, start) ==
    LET from == IF start < 0
                THEN (IF Len(buf) + start < 0 THEN 0 ELSE Len(buf) + start)
                ELSE (IF start > Len(buf) THEN Len(buf) ELSE start)
    IN SubSeq(buf, from + 1, Len(buf))

\* BaseTextualApp.get_recent_output: output_lines
get_recent_output(buf, lines) ==
    IF buf # <<>> THEN SliceFrom(buf, -lines) ELSE <<>>

\* BaseTextualApp.get_app_specific_detailed_state (CalculatorApp does not
\* override it)
get_app_specific_detailed_state(a) == EmptyDict

\* get_app_state tool: of get_detailed_state, its recent_interactions and
\* app_specific
GetAppState(a) ==
    LET res == UiGuard(a, FALSE)
    IN
    /\ CanAcceptUi
    /\ ui_calls' = ui_calls (+) SetToBag({
           IF res = "success"
           THEN [UiCall("get_state", a, "", "", res) EXCEPT
                    !.lines = SliceFrom(instances[a].output_buffer, -10),
                    !.app_specific = get_app_specific_detailed_state(a)]
           ELSE UiCall("get_state", a, "", "", res)})
    /\ UNCHANGED <<appvars, envvars, calculators>>

\* read_app_output tool
ReadAppOutput(a, lines) ==
    LET res == UiGuard(a, FALSE)
        out == get_recent_output(instances[a].output_buffer, lines)
    IN
    /\ CanAcceptUi
    /\ ui_calls' = ui_calls (+) SetToBag({
           IF res = "success"
           THEN [UiCall("read_output", a, "", "", res) EXCEPT
                    !.lines = out,
                    !.lines_requested = lines,
                    !.lines_returned = Len(out),
                    !.total_lines = Len(instances[a].output_buffer)]
           ELSE [UiCall("read_output", a, "", "", res) EXCEPT
                    !.lines_requested = lines]})
    /\ UNCHANGED <<appvars, envvars, calculators>>

\* the caller picks up the answer of an interaction call
UiReturn(c) ==
    /\ c \in BagToSet(ui_calls)
    /\ ui_calls' = ui_calls (-) SetToBag({c})
    /\ UNCHANGED <<appvars, envvars, calculators>>

\* key names sent and typed, and line counts asked for
Keys == {"5", "+", "3", "="}
LineCounts == {0, 1, 3, 50}

\* collaborative launch of the one application of a run
LaunchOne ==
    /\ used_ids = {}
    /\ \E a \in AppIds : LaunchBegin("calculator", "collaborative", a, "none")

\* the launch of a has returned to its caller and its worker runs
Launched(a) ==
    /\ a \in DOMAIN instances
    /\ calls = EmptyBag
    /\ futures[a] = "running"

\* one calculator launched in collaborative mode; once it runs, keys are
\* typed at it, key inputs sent to it and its state asked for
UiNext ==
    \/ LaunchOne
    \/ \E r \in BagToSet(calls) : LaunchSlept(r)
    \/ \E r \in BagToSet(calls) : Return(r)
    \/ \E a \in AppIds : WorkerStart(a)
    \/ \E a \in AppIds, k \in Keys : Launched(a) /\ OnKey(a, k)
    \/ \E a \in AppIds, k \in Keys :
          /\ Launched(a)
          /\ Len(instances[a].output_buffer) + 2 <= MaxLines
          /\ SendInput(a, "key", k)
    \/ \E a \in AppIds : Launched(a) /\ GetAppState(a)
    \/ \E c \in BagToSet(ui_calls) : UiReturn(c)

UiSpec == Init /\ [][UiNext]_vars

\* one application launched in collaborative mode, text inputs sent to it
\* and its output read, with any line count and at any time
OutputNext ==
    \/ LaunchOne
    \/ \E r \in BagToSet(calls) : LaunchSlept(r)
    \/ \E r \in BagToSet(calls) : Return(r)
    \/ \E a \in AppIds : WorkerStart(a)
    \/ \E a \in AppIds, t \in {"text", "mouse"} :
          /\ a \in DOMAIN instances
          /\ Len(instances[a].output_buffer) + 2 <= MaxLines
          /\ SendInput(a, t, "x")
    \/ \E a \in AppIds, n \in LineCounts : ReadAppOutput(a, n)
    \/ \E c \in BagToSet(ui_calls) : UiReturn(c)

OutputSpec == Init /\ [][OutputNext]_vars

\* one application launched in collaborative mode; once it runs, key inputs
\* are sent to it without end, one after the answer of the other was picked
\* up, each naming the length of the buffer at the time
BufferNext ==
    \/ LaunchOne
    \/ \E r \in BagToSet(calls) : LaunchSlept(r)
    \/ \E r \in BagToSet(calls) : Return(r)
    \/ \E a \in AppIds : WorkerStart(a)
    \/ \E a \in AppIds :
          /\ Launched(a)
          /\ ui_calls = EmptyBag
          /\ SendInput(a, "key", ToString(Len(instances[a].output_buffer)))
    \/ \E c \in BagToSet(ui_calls) : UiReturn(c)

BufferSpec == Init /\ [][BufferNext]_vars

----------------------------------------------------------------------------
(* Properties *)

\* the call c got its answer in this step
Answered(c) == c.pc = "done" /\ CopiesIn(c, calls') > CopiesIn(c, calls)

\* the terminate_app calls on a that are in the bag b
TerminateCalls(b, a) ==
    [c \in {x \in BagToSet(b) : x.op = "terminate" /\ x.app_id = a} |-> b[c]]

\* terminate_app(a) was called in this step
TerminateCalled(a) ==
    BagCardinality(TerminateCalls(calls', a)) >
        BagCardinality(TerminateCalls(calls, a))

\* C1: whenever terminate(app_id) returns true, app_id is absent from
\* running_apps and from app_processes in the state in which it returns
\* (whatever the launch mode of app_id was).
C1_TrueMeansAbsent ==
    [][\A c \in BagToSet(calls') :
          (c.op = "terminate" /\ c.result = "true" /\ Answered(c))
          => /\ c.app_id \notin DOMAIN running_apps'
             /\ c.app_id \notin DOMAIN app_processes']_vars

\* C1 happens: a terminate of an app that had a process returned true
C1_Witness ==
    \E c \in BagToSet(calls) :
        /\ c.op = "terminate" /\ c.pc = "done" /\ c.result = "true"
        /\ procs[c.app_id] = "exited"
        /\ c.app_id \notin DOMAIN running_apps
        /\ c.app_id \notin DOMAIN app_processes

\* C2: a launch request with an unregistered name fails with the
\* unknown-application error, leaves running_apps, app_processes and the
\* registry index as they were and spawns no process, in every launch mode.
C2_UnknownNameFails ==
    [][\A c \in BagToSet(calls') :
          (c.op = "launch" /\ c.name \notin RegisteredApps /\ Answered(c))
          => /\ c.result = "Unknown application"
             /\ UNCHANGED <<running_apps, app_processes, registry_running,
                            procs>>]_vars

\* C3: when a terminate call on a is still suspended in its wait while
\* another terminate call on a has already removed the entry and returned
\* true (the two ran concurrently), the suspended call does not raise.
C3_ConcurrentTerminateNoRaise ==
    [][\A c \in BagToSet(calls), d \in BagToSet(calls) :
          (/\ c.op = "terminate" /\ c.pc \in {"wait_grace", "wait_kill"}
           /\ d.op = "terminate" /\ d.app_id = c.app_id
           /\ d.pc = "done" /\ d.result = "true")
          => ~Answered([c EXCEPT !.pc = "done", !.result = "KeyError"])]_vars

\* C4: terminate(app_id) for an app_id that is not in running_apps returns
\* false at once, raises nothing and changes no table, worker or file.
C4_AbsentIsNoOp ==
    [][\A a \in AppIds :
          (TerminateCalled(a) /\ a \notin DOMAIN running_apps)
          => /\ Answered([Call("terminate", "done", a, "", "", "false")
                             EXCEPT !.cleanup_successful = TRUE])
             /\ UNCHANGED <<running_apps, app_processes, registry_running,
                            app_futures, futures, instances, procs,
                            temp_files>>]_vars

\* C4 happens: terminate of a never launched id answered false
C4_Witness ==
    \E c \in BagToSet(calls) :
        /\ c.op = "terminate" /\ c.pc = "done" /\ c.result = "false"
        /\ c.app_id \notin used_ids

\* C5: terminate returns true only if every substep succeeded: when
\* app.exit() raises on a live instance that terminate asks to exit (and no
\* other call on that app_id is in progress), the call does not answer true.
C5_TrueOnlyIfAllSucceeded ==
    [][\A a \in AppIds, sg \in BOOLEAN, u \in BOOLEAN :
          (/\ a \in DOMAIN running_apps
           /\ running_apps[a].kind = "app"
           /\ \A d \in BagToSet(calls) : d.app_id = a => d.pc = "done"
           /\ TerminateBegin(a, FALSE, sg, u))
          => \A c \in BagToSet(calls') :
                ~(c.op = "terminate" /\ c.app_id = a /\ c.result = "true"
                  /\ Answered(c))]_vars

\* C6: when launch_app fails after the app_id was generated, nothing keyed
\* by that app_id is left in running_apps, the registry index,
\* app_processes, _app_futures or the scratch directory.
C6_FailedLaunchRolledBack ==
    [][\A c \in BagToSet(calls') :
          (c.op = "launch" /\ c.result = "Failed to launch" /\ Answered(c)
           /\ c.app_id # None)
          => /\ c.app_id \notin DOMAIN running_apps'
             /\ c.app_id \notin registry_running'
             /\ c.app_id \notin DOMAIN app_processes'
             /\ c.app_id \notin app_futures'
             /\ \A f \in temp_files' : f[2] # c.app_id]_vars

\* C7: every app_id with an app_processes entry has a running_apps entry.
C7_NoDanglingProcess == DOMAIN app_processes \subseteq DOMAIN running_apps

\* C8: cleanup_dead_processes deletes no running_apps entry; it leaves
\* unchanged every entry whose process is alive (and every entry it does not
\* probe or whose probe finds a process); for every AppStatus entry whose
\* pid no longer exists it sets status stopped, clears the pid and removes
\* the app_processes entry.
C8_ReapOnlyTheDead ==
    [][\A c \in BagToSet(calls') :
          (c.op = "reap" /\ Answered(c))
          => /\ DOMAIN running_apps' = DOMAIN running_apps
             /\ \A a \in DOMAIN running_apps :
                   /\ (\/ a \notin Probed
                       \/ ReturncodeIsNone(a)
                       \/ c.probe[a] = "ok")
                      => /\ running_apps'[a] = running_apps[a]
                         /\ a \in DOMAIN app_processes'
                               <=> a \in DOMAIN app_processes
                   /\ (a \in Probed /\ c.probe[a] = "ProcessLookupError")
                      => /\ running_apps'[a].status = "stopped"
                         /\ running_apps'[a].pid = None
                         /\ a \notin DOMAIN app_processes']_vars

\* C8 happens: one reap found a dead entry and reconciled it, and found a
\* live one and left it running
C8_Witness ==
    \E c \in BagToSet(calls) :
        /\ c.op = "reap" /\ c.pc = "done"
        /\ \E a \in DOMAIN c.probe, b \in DOMAIN c.probe :
              /\ c.probe[a] = "ProcessLookupError"
              /\ a \in DOMAIN running_apps
              /\ running_apps[a].status = "stopped"
              /\ running_apps[a].pid = None
              /\ a \notin DOMAIN app_processes
              /\ c.probe[b] = "ok"
              /\ ReturncodeIsNone(b)
              /\ b \in DOMAIN running_apps
              /\ running_apps[b].status = "running"
              /\ running_apps[b].pid = PidOf(b)
              /\ b \in DOMAIN app_processes

\* C9: when os.kill fails with something else than "no such process"
\* (PermissionError), cleanup_dead_processes leaves the entry's status, pid
\* and app_processes entry unchanged.
C9_AmbiguousProbeKeepsEntry ==
    [][\A c \in BagToSet(calls') :
          (c.op = "reap" /\ Answered(c))
          => \A a \in DOMAIN c.probe :
                c.probe[a] = "PermissionError"
                => /\ running_apps'[a] = running_apps[a]
                   /\ a \in DOMAIN app_processes'
                         <=> a \in DOMAIN app_processes]_vars

\* C10: the state get_app_status reports for an app_id never leaves stopped
\* or error, and never goes from running back to starting.
C10_StatusMonotonic ==
    [][\A a \in (DOMAIN running_apps) \cap (DOMAIN running_apps') :
          /\ get_app_status(a) \in {"stopped", "error"}
                => get_app_status(a)' = get_app_status(a)
          /\ get_app_status(a) = "running"
                => get_app_status(a)' # "starting"]_vars

\* a launch_app call generated the id a and stored its instance under it in
\* this step
LaunchStored(a) ==
    \E c \in BagToSet(calls') :
        /\ c.op = "launch" /\ c.app_id = a
        /\ c.pc \in {"spawn", "sleep", "overwrote"}
        /\ CopiesIn(c, calls') > CopiesIn(c, calls)

\* C11: the app_id a launch generates is not a key of running_apps at the
\* moment it is generated, so the launch overwrites no tracked entry.
C11_FreshAppId ==
    [][\A a \in AppIds : LaunchStored(a) => a \notin DOMAIN running_apps]_vars

\* C12: for every known template and every customizations value (none and
\* the empty mapping included), launch_environment either fails and creates
\* no environment, or the command list it submits to the supervisor and
\* stores in the environment record holds no unresolved placeholder.
\* (The list stored is the list that was submitted: an environment exists
\* once the supervisor was spawned with it.)
C12_NoUnresolvedPlaceholder ==
    \A e \in DOMAIN multiplex_environments :
        multiplex_environments[e].template \in DOMAIN environment_templates
        => ~Unresolved(multiplex_environments[e].config)

\* the environment call c got its answer in this step
EnvAnswered(c) ==
    c.pc = "done" /\ CopiesIn(c, env_calls') > CopiesIn(c, env_calls)

\* C13: launch_environment with a template name that is not in the template
\* table fails before any env_id is generated: the call is answered at once
\* with the unknown-template error and carries no env_id, no supervisor
\* process is spawned and multiplex_environments is unchanged.
C13_UnknownTemplateFails ==
    [][\A c \in BagToSet(env_calls') :
          (c.op = "launch_env"
           /\ c.template \notin DOMAIN environment_templates)
          => /\ c.pc = "done"
             /\ c.result = "Unknown template"
             /\ c.env_id = None
             /\ EnvAnswered(c)
                => UNCHANGED <<multiplex_environments, env_procs,
                               env_used_ids>>]_vars

\* C13 happens: a launch with an unknown template was answered while an
\* environment was tracked, and that environment is all there is
C13_Witness ==
    /\ \E c \in BagToSet(env_calls) :
          /\ c.op = "launch_env" /\ c.pc = "done"
          /\ c.template = "no_such_template"
          /\ c.result = "Unknown template"
    /\ DOMAIN multiplex_environments = {1}
    /\ env_used_ids = {1}
    /\ env_procs[1] = "alive"

\* config is what C14 expects for the caller's commands cmds and timeout t
ExpectedWorkflow(config, cmds, t) ==
    IF t > 0
    THEN /\ Len(config) = Len(cmds) + 1
         /\ \A i \in 1..Len(cmds) : config[i] = cmds[i]
         /\ config[Len(config)] = DeadlineCommand(t)
    ELSE /\ Len(config) = Len(cmds)
         /\ \A i \in 1..Len(cmds) : config[i] = cmds[i]

\* C14: create_custom_workflow with n commands and a timeout t > 0 submits
\* and records a command list of exactly n+1 entries, the caller's commands
\* in order followed by the deadline command for t; with t <= 0 the list is
\* exactly the caller's n commands. (Submitted: the arguments after
\* "multiplex" given to create_subprocess_exec; recorded: the config of the
\* environment record stored when the spawn succeeds.)
C14_DeadlineAppended ==
    [][/\ \A cmds \in WorkflowConfigs, t \in Timeouts, e \in EnvIds :
             CreateCustomWorkflowBegin(cmds, t, e)
             => \E c \in BagToSet(env_calls') :
                   /\ c.op = "custom" /\ c.pc = "spawn" /\ c.env_id = e
                   /\ CopiesIn(c, env_calls') > CopiesIn(c, env_calls)
                   /\ Head(c.submitted) = <<Lit("multiplex")>>
                   /\ ExpectedWorkflow(Tail(c.submitted), cmds, t)
       /\ \A r \in BagToSet(env_calls) :
             (/\ r.op = "custom" /\ r.pc = "spawn"
              /\ r.env_id \notin DOMAIN multiplex_environments
              /\ r.env_id \in DOMAIN multiplex_environments')
             => multiplex_environments'[r.env_id].config = Tail(r.submitted)
      ]_vars

\* C14 happens: the workflow of 2 commands with timeout 10 is recorded with
\* 3 entries, the last being the deadline command
C14_Witness ==
    \E e \in DOMAIN multiplex_environments :
        /\ multiplex_environments[e].template = "custom"
        /\ multiplex_environments[e].config =
              << <<Lit("A=echo a")>>, <<Lit("B+A=echo b")>>,
                 DeadlineCommand(10) >>
        /\ env_procs[e] = "alive"

\* the answers that are an exception leaving the tool function
RaisedResults == {"KeyError", "ProcessLookupError"}

\* C15 (its last part): terminate_environment never raises, whatever the
\* state of the supervisor process of a tracked environment (running, or
\* already exited).
C15_TerminateEnvironmentNoRaise ==
    \A c \in BagToSet(env_calls) :
        c.op = "terminate_env" => c.result \notin RaisedResults

\* C16: every operation at the boundary answers with a structured success
\* or error result in every reachable state; no internal failure leaves the
\* boundary as a raised exception.
C16_NoRaiseAtBoundary ==
    /\ \A c \in BagToSet(calls) : c.result \notin RaisedResults
    /\ \A c \in BagToSet(env_calls) : c.result \notin RaisedResults

\* C17: when a termination signal arrives while the server is serving
\* (and no process.terminate() raises), then at the exit of the server the
\* process of every tracked application and the supervisor process of every
\* tracked environment has been sent a termination request (or has exited
\* before), and running_apps, app_processes and multiplex_environments are
\* empty.
C17_ShutdownTerminatesAll ==
    [][SignalHandler(TRUE)
       => /\ \A a \in DOMAIN app_processes : procs'[a] # "alive"
          /\ \A e \in DOMAIN multiplex_environments : env_procs'[e] # "alive"
          /\ running_apps' = EmptyDict
          /\ app_processes' = EmptyDict
          /\ multiplex_environments' = EmptyDict]_vars

\* C18 (its terminate part): once terminate_app(app_id) has returned true
\* (the launch of app_id having returned before), no scratch file that the
\* launch wrote for app_id exists, whatever the launch mode was.
C18_ScratchFileRemoved ==
    [][\A c \in BagToSet(calls') :
          (/\ c.op = "terminate" /\ c.result = "true" /\ Answered(c)
           /\ \A d \in BagToSet(calls) :
                 (d.op = "launch" /\ d.app_id = c.app_id) => d.pc = "done")
          => \A f \in temp_files' : f[2] # c.app_id]_vars

\* C19: for an application launched in background mode whose spawned
\* process is still alive, get_app_status reports the state running with a
\* process id that is not None.
C19_BackgroundReportsRunning ==
    \A a \in DOMAIN running_apps :
        (/\ running_apps[a].kind = "app"
         /\ instances[a].process_id # None
         /\ a \in DOMAIN app_processes
         /\ procs[a] = "alive")
        => /\ get_app_status(a) = "running"
           /\ get_app_status_pid(a) # None

\* C20: when a launch in collaborative mode returns an app_id, the main
\* loop of the instance has been started on a worker and get_app_status
\* reports running -- here for a launch that returns while MAX_WORKERS
\* other collaborative applications are running.
C20_CollaborativeRunningOnReturn ==
    [][\A c \in BagToSet(calls') :
          (/\ c.op = "launch" /\ c.mode = "collaborative"
           /\ c.result = "success" /\ Answered(c)
           /\ Cardinality({a \in Ids \ {c.app_id} : futures[a] = "running"})
                 = MAX_WORKERS)
          => /\ futures'[c.app_id] = "running"
             /\ get_app_status(c.app_id)' = "running"]_vars

\* the interaction call c got its answer in this step
UiAnswered(c) == CopiesIn(c, ui_calls') > CopiesIn(c, ui_calls)

\* C21: a key input delivered through send_input_to_app to a calculator
\* launched in collaborative mode reaches the calculator's own key
\* handling: the send leaves the calculator's attributes as on_key leaves
\* them for that key (so that 5, +, 3, = sent in that order leave the result
\* 8 for get_app_state to report).
C21_KeyInputReachesCalculator ==
    [][\A a \in AppIds, k \in Keys :
          (/\ UiGuard(a, TRUE) = "success"
           /\ instances[a].name = "calculator"
           /\ SendInput(a, "key", k))
          => calculators'[a] = on_key(calculators[a], k)]_vars

\* s is the end of t
IsSuffix(s, t) ==
    /\ Len(s) <= Len(t)
    /\ s = SubSeq(t, Len(t) - Len(s) + 1, Len(t))

\* C29: after any sequence of appends the output buffer holds at most
\* BUFFER_LIMIT entries and is an uninterrupted end of everything appended,
\* in order: every step that changes a buffer leaves an end of the old
\* buffer followed by the one or two entries the step appended (eviction
\* drops oldest entries only).
C29_BufferIsRecentSuffix ==
    [][\A a \in (DOMAIN instances) \cap (DOMAIN instances') :
          LET old == instances[a].output_buffer
              new == instances'[a].output_buffer
          IN /\ Len(new) <= BUFFER_LIMIT
             /\ new # old
                => \E n \in {1, 2} :
                      /\ Len(new) >= n
                      /\ IsSuffix(SubSeq(new, 1, Len(new) - n), old)]_vars

\* C29 happens: the buffer was cut (its first entry is no longer a line of
\* the launch) and has been filled up to the limit again
C29_Witness ==
    \E a \in DOMAIN instances :
        /\ Len(instances[a].output_buffer) = BUFFER_LIMIT
        /\ instances[a].output_buffer[1] \notin
              {"Starting app in-process",
               "In-process app launched successfully"}

\* C30: read_app_output with lines = n >= 0 returns at most n lines, the
\* last min(n, buffer length) entries of the output buffer in order (none
\* for n = 0), and lines_returned is the number of lines returned.
C30_RecentOutputAtMostN ==
    [][\A c \in BagToSet(ui_calls') :
          (/\ c.op = "read_output" /\ c.result = "success" /\ UiAnswered(c)
           /\ c.lines_requested >= 0)
          => LET buf == instances[c.app_id].output_buffer
                 n == c.lines_requested
                 k == IF n < Len(buf) THEN n ELSE Len(buf)
             IN /\ Len(c.lines) <= n
                /\ c.lines = SubSeq(buf, Len(buf) - k + 1, Len(buf))
                /\ c.lines_returned = Len(c.lines)]_vars

\* the monitor task of a has handled the exit of the process while the
\* terminate_app call r on a is suspended in a wait (a was launched by
\* AppManager.launch_app: it is in the registry index; only the monitor
\* replaces the instance of such an app by a stopped AppStatus)
MonitorHandledFirst(r) ==
    /\ r.op = "terminate"
    /\ r.app_id \in registry_running
    /\ r.pc \in {"wait_grace", "wait_kill"}
    /\ procs[r.app_id] = "exited"
    /\ monitors[r.app_id] = "none"
    /\ r.app_id \notin DOMAIN app_processes
    /\ r.app_id \in DOMAIN running_apps
    /\ running_apps[r.app_id] =
          StatusOnly(running_apps[r.app_id].name, None, "stopped", FALSE)

\* C22: if the process of a background-mode app exits while terminate_app
\* is suspended waiting for it, and the monitor task handles the exit before
\* terminate_app resumes, terminate_app does not raise, returns a boolean
\* and leaves app_id absent from running_apps and app_processes.
C22_MonitorFirstNoRaise ==
    [][\A r \in BagToSet(calls) :
          MonitorHandledFirst(r)
          => \A c \in BagToSet(calls') :
                (c.op = "terminate" /\ c.app_id = r.app_id /\ Answered(c))
                => /\ c.result \in {"true", "false"}
                   /\ c.app_id \notin DOMAIN running_apps'
                   /\ c.app_id \notin DOMAIN app_processes']_vars

\* a terminate_app call on a is suspended in one of its waits
WaitingOn(a) ==
    \E r \in BagToSet(calls) :
        r.op = "terminate" /\ r.app_id = a
        /\ r.pc \in {"wait_grace", "wait_kill"}

\* the call r leaves its place in this step
Leaves(r) == CopiesIn(r, calls') < CopiesIn(r, calls)

\* C23: in terminate_app with a tracked live process, process.kill() is
\* sent only after process.terminate() was sent and the wait of the grace
\* period ended with the process not exited; a call whose grace period ends
\* so always sends the kill and waits again, keeping the app_processes and
\* running_apps entries; a suspended call goes on to remove them only after
\* the process has exited; and every suspended call comes to its end.
C23_GraceThenKill ==
    /\ [][\A a \in AppIds :
             /\ (procs'[a] = "killed" /\ procs[a] # "killed")
                => /\ procs[a] = "termed"
                   /\ \E r \in BagToSet(calls) :
                         /\ r.op = "terminate" /\ r.app_id = a
                         /\ r.pc = "wait_grace" /\ Leaves(r)
             /\ \A r \in BagToSet(calls) :
                   (/\ r.op = "terminate" /\ r.app_id = a
                    /\ r.pc \in {"wait_grace", "wait_kill"}
                    /\ ReturncodeIsNone(a)
                    /\ Leaves(r))
                   => /\ r.pc = "wait_grace"
                      /\ procs'[a] = "killed"
                      /\ CopiesIn([r EXCEPT !.pc = "wait_kill"], calls')
                            > CopiesIn([r EXCEPT !.pc = "wait_kill"], calls)
                      /\ UNCHANGED <<running_apps, app_processes>>]_vars
    /\ \A a \in AppIds : WaitingOn(a) ~> ~WaitingOn(a)

\* C23 happens: the grace period of a terminate_app call ended, the process
\* was sent the kill and has not exited yet, and its entries are there
C23_Witness ==
    \E r \in BagToSet(calls) :
        /\ r.op = "terminate" /\ r.pc = "wait_kill"
        /\ procs[r.app_id] = "killed"
        /\ r.app_id \in DOMAIN app_processes
        /\ r.app_id \in DOMAIN running_apps

\* C24: when the monitor task handles the exit of the process of a (and
\* unlink does not fail): if running_apps[a] is still the instance, the exit
\* note is appended to its output buffer and running_apps[a] becomes an
\* AppStatus with status stopped and no pid; the app_processes entry and the
\* scratch file of a are gone in every case; and if a is not in running_apps
\* the monitor does not put it back.
C24_MonitorExitHandling ==
    [][\A a \in AppIds :
          MonitorExit(a, TRUE)
          => /\ (a \in DOMAIN running_apps /\ running_apps[a].kind = "app")
                => /\ running_apps'[a] =
                         StatusOnly(running_apps[a].name, None, "stopped",
                                    FALSE)
                   /\ get_app_status(a)' = "stopped"
                   /\ a \in DOMAIN instances'
                   /\ instances'[a].output_buffer =
                         Append(instances[a].output_buffer,
                                "Terminal process ended")
             /\ a \notin DOMAIN app_processes'
             /\ \A f \in temp_files' : f[2] # a
             /\ a \notin DOMAIN running_apps
                => a \notin DOMAIN running_apps']_vars

\* C24 happens: the monitor has handled the exit of a background app whose
\* instance was registered
C24_Witness ==
    \E a \in DOMAIN running_apps :
        /\ procs[a] = "exited"
        /\ monitors[a] = "none"
        /\ a \in registry_running
        /\ running_apps[a] =
              StatusOnly(running_apps[a].name, None, "stopped", FALSE)
        /\ a \in DOMAIN instances
        /\ instances[a].output_buffer =
              <<"Terminal launched", "Terminal process ended">>
        /\ a \notin DOMAIN app_processes
        /\ \A f \in temp_files : f[2] # a

\* C25: for every tracked app whose spawned process has exited without
\* terminate_app being called, in any launch mode that tracks a process,
\* after cleanup_dead_processes has run (os.kill finding no process) the
\* entry of the app reports stopped and the app_id has no app_processes
\* entry -- here for the apps no monitor task is waiting for.
C25_ReapReconcilesEveryMode ==
    [][\A c \in BagToSet(calls') :
          (c.op = "reap" /\ Answered(c))
          => \A a \in (DOMAIN running_apps) \cap (DOMAIN app_processes) :
                (/\ procs[a] = "exited"
                 /\ monitors[a] = "none"
                 /\ a \in DOMAIN c.probe => c.probe[a] = "ProcessLookupError"
                 /\ \A d \in BagToSet(calls) :
                       ~(d.op = "terminate" /\ d.app_id = a))
                => /\ get_app_status(a)' = "stopped"
                   /\ a \notin DOMAIN app_processes']_vars

\* C26: once terminate_app has removed an app_id from running_apps, that
\* app_id never appears in running_apps again, whatever happens afterwards.
\* (An id that was stored and is absent from running_apps was removed: by
\* terminate_app or, for a launch whose spawn failed, by launch_app itself;
\* no id is handed out twice. Stated for ids whose launch has returned.)
C26_RemovedStaysRemoved ==
    [][\A a \in used_ids :
          (/\ a \notin DOMAIN running_apps
           /\ \A d \in BagToSet(calls) :
                 (d.op = "launch" /\ d.app_id = a) => d.pc = "done")
          => a \notin DOMAIN running_apps']_vars

\* C27: in every reachable state, an app_id is in the live-instance index of
\* AppRegistry only if running_apps maps that app_id to a live instance.
C27_RegistryOnlyLiveInstances ==
    \A a \in registry_running :
        a \in DOMAIN running_apps /\ running_apps[a].kind = "app"

\* the app ids this step works on: those of the terminate_app calls that
\* were accepted or moved on, of the monitor tasks that ended, and of the
\* entries a cleanup_dead_processes call found dead
Touched ==
    {a \in AppIds :
        \/ \E c \in BagToSet(calls') :
              /\ c.op = "terminate" /\ c.app_id = a
              /\ CopiesIn(c, calls') > CopiesIn(c, calls)
        \/ monitors[a] = "waiting" /\ monitors'[a] = "none"
        \/ \E c \in BagToSet(calls') :
              /\ c.op = "reap" /\ Answered(c)
              /\ a \in DOMAIN c.probe /\ c.probe[a] # "ok"}

\* the step is one of terminate_app, of a monitor task or of
\* cleanup_dead_processes
Reconciles ==
    \/ Touched # {}
    \/ \E c \in BagToSet(calls') : c.op = "reap" /\ Answered(c)

\* the step leaves everything keyed by b as it was
SameFor(b) ==
    /\ b \in DOMAIN running_apps <=> b \in DOMAIN running_apps'
    /\ b \in DOMAIN running_apps => running_apps'[b] = running_apps[b]
    /\ b \in DOMAIN app_processes <=> b \in DOMAIN app_processes'
    /\ b \in DOMAIN app_processes => app_processes'[b] = app_processes[b]
    /\ b \in registry_running <=> b \in registry_running'
    /\ b \in app_futures <=> b \in app_futures'
    /\ futures'[b] = futures[b]
    /\ {f \in temp_files' : f[2] = b} = {f \in temp_files : f[2] = b}

\* C28: terminate_app(a), the monitor's exit handling for a and the
\* reconciliation of a by cleanup_dead_processes change only state keyed by
\* a: the running_apps entry, app_processes entry, registry index entry,
\* worker entry and scratch files of every other app_id are unchanged, also
\* when operations on several app_ids are interleaved.
C28_OnlyOwnKey ==
    [][Reconciles => \A b \in AppIds \ Touched : SameFor(b)]_vars

\* C28 happens: terminate_app on one background app has returned while the
\* other background app is tracked as before, process and scratch file
\* included
C28_Witness ==
    \E c \in BagToSet(calls), b \in AppIds :
        /\ c.op = "terminate" /\ c.pc = "done" /\ c.result = "true"
        /\ c.app_id # b
        /\ procs[c.app_id] = "exited"
        /\ \A f \in temp_files : f[2] # c.app_id
        /\ b \in DOMAIN running_apps /\ running_apps[b].kind = "app"
        /\ b \in registry_running
        /\ b \in DOMAIN app_processes /\ procs[b] = "alive"
        /\ <<LaunchTerminalFile, b>> \in temp_files

====
